---- MODULE Spec2Model ----
(***************************************************************************)
(* Model of the health-assistant orchestration graph (chat.py) and of the  *)
(* chat front end that calls it (app.py).                                  *)
(*                                                                         *)
(* One behaviour is one request: a handler of the front end (or a direct   *)
(* caller) invokes generate_response, the nodes of the graph execute one   *)
(* at a time, and the handler then sends its replies.  The language model, *)
(* the retriever and the database are external: each call to them is a     *)
(* nondeterministic choice over the outcomes they can produce, an          *)
(* exception included.                                                     *)
(***************************************************************************)
EXTENDS Integers, Sequences, FiniteSets, TLC

\* ------------------------------------------------------------------ bounds
MaxMsgs == 1
MaxFmtMsgs == 2                  \* messages handed to format_messages
MaxContent == 2                  \* characters in the content of one of them
MaxChars == 20                   \* largest max_chars
MaxDay == 2                      \* days on which summaries are generated
MaxWeight == 90                  \* largest weight (kg) given to get_bmi_analysis
MaxHeight == 160                 \* largest height (cm) given to it

\* ---------------------------------------------------------------- constants
NoUser == 0                      \* user_id = None
UserIds == {1}
NULL == 0                        \* SQL NULL / Python None in a profile field
Values == {1}

Roles == {"user", "assistant"}
Contents == {"", " ", "a"}
MsgContents == {"", "a"}         \* the contents of the messages a caller passes
Topics == {"ask", "update", "update_ask"}
Unset == "unset"                 \* topic = None

\* the nodes of the graph that call the language model
Stages == {"rate_severity", "extract_topic", "extract_profile", "generate_raw"}

\* integers the severity model can put in SeverityRate.rate (no range check)
Rates == -1 .. 6

UserFields == {"name", "dob"}
ProfileFields == {"name", "weight"}
\* a profile delta after model_dump(exclude_none=True): the captured fields
Deltas == UNION {[F -> Values] : F \in SUBSET ProfileFields}

\* an optional value is a sequence of length at most one (<<>> is None)
None == <<>>
Some(x) == <<x>>

VARIABLES
    pc,                  \* the node about to execute, or idle/END/raised
    app,                 \* the caller's position: idle, called, done
    handler,             \* who called generate_response
    sent,                \* what the front end has sent to the user, in order
    user_id, messages, question, topic, use_info, is_new_user, user_info,
    user_context, pending_extraction, use_rag, documents, invoke_qa,
    severity_rate, response, interrupted,        \* the fields of AgentState
    db_users,            \* the Users table: user id -> optional row
    db_bmi,              \* UserBMIRecords: user id -> optional row of today
    db_activity,         \* UserActivityRecords: user id -> optional row of today
    view,                \* the ProfileConfirmView on display, if any
    ephemeral,           \* kinds of ephemeral messages sent to whoever pressed
    prev_save, last_save,\* the deltas of the last two profile saves, when
                         \* both were committed for the same user
    save_result,         \* the outcome of the save of the last owner's confirm
    db_access,           \* whether the run has queried or written the store
    svc,                 \* the answers of the retriever and the database to
                         \* load_user_info, where they are observed
    topic_in,            \* the topic the caller supplied
    use_info_in,         \* the use_info the caller supplied
    llm,                 \* outcome of the model call of each stage
    is_question,         \* whether the classified message asks a question
                         \* (a fact about the input; no code reads it)
    executed,            \* the nodes executed so far, in order
    fm_messages, max_chars,      \* the arguments of a format_messages call
    formatted,           \* and the text it returned, if it has returned
    racers,              \* the runs that are in load_user_info for one user id
    runs,                \* concurrent invocations: the AgentState of each
    heap,                \* and the dict objects their invoke_qa fields refer to
    db_summary,          \* UserSummaryRecords: a set of rows
    today,               \* date.today()
    summary_result,      \* what the last generate_summary call returned
    summary_saved,       \* (user_id, date) -> the last summary saved for it
    press,               \* the last press of a button of the view: who, which
    bmi_call,            \* a call of get_bmi_analysis: arguments and result
    tx_call              \* a call of save_extracted_profile: its arguments,
                         \* where it failed and the store it started from

state == <<user_id, messages, question, topic, use_info, is_new_user,
           user_info, user_context, pending_extraction, use_rag, documents,
           invoke_qa, severity_rate, response, interrupted>>
hist == <<topic_in, use_info_in, llm, is_question, executed, db_access>>
store == <<db_users, db_bmi, db_activity>>
saves == <<prev_save, last_save>>
fmt == <<fm_messages, max_chars, formatted>>
pair == <<runs, heap>>
summ == <<db_summary, today, summary_result, summary_saved>>
aux == <<fmt, racers, pair, summ, bmi_call, tx_call>>
rest == <<db_bmi, db_activity, ephemeral, saves, save_result, svc, press, aux>>
other == <<rest, view>>
vars == <<pc, app, handler, sent, state, db_users, hist, other>>

\* ------------------------------------------------------------ pure helpers
Strip(s) == IF s = " " THEN "" ELSE s

defaultMessage == "default"

Histories(C) ==
    UNION {[1 .. n -> [role : Roles, content : C]] : n \in 0 .. MaxMsgs}

RECURSIVE LastUserContent(_, _)
\* the scan of generate_response: content of the last message with role user
LastUserContent(msgs, i) ==
    IF i = 0 THEN None
    ELSE IF msgs[i].role = "user" THEN Some(msgs[i].content)
    ELSE LastUserContent(msgs, i - 1)

derive_question(msgs) ==
    LET c == LastUserContent(msgs, Len(msgs))
    IN  IF c = None THEN ""
        ELSE IF Strip(c[1]) = "" THEN defaultMessage ELSE Strip(c[1])

\* format_messages with the default budget, which these short histories never
\* reach: the lines of the non-empty messages, in order
RECURSIVE format_lines(_)
format_lines(msgs) ==
    IF msgs = <<>> THEN <<>>
    ELSE IF Head(msgs).content = "" THEN format_lines(Tail(msgs))
    ELSE <<[role |-> Head(msgs).role, content |-> Strip(Head(msgs).content)]>>
         \o format_lines(Tail(msgs))

\* ------------------------------------------------------- format_messages
\* text is a sequence of characters
Chars == {" ", "a"}
Texts == UNION {[1 .. n -> Chars] : n \in 0 .. MaxContent}
TextOf(role) == IF role = "user" THEN <<"u", "s", "e", "r">>
                ELSE <<"a", "s", "s", "i", "s", "t", "a", "n", "t">>
IsSpace(c) == c \in {" ", "\n"}

RECURSIVE lstrip(_)
lstrip(t) == IF t # <<>> /\ IsSpace(Head(t)) THEN lstrip(Tail(t)) ELSE t
RECURSIVE rstrip(_)
rstrip(t) == IF t # <<>> /\ IsSpace(t[Len(t)])
             THEN rstrip(SubSeq(t, 1, Len(t) - 1)) ELSE t
\* str.strip()
strip(t) == rstrip(lstrip(t))

\* f"{role}: {content.strip()}\n"
formatted_line(msg) ==
    TextOf(msg.role) \o <<":", " ">> \o strip(msg.content) \o <<"\n">>

fits_always(current_length, line, N) == TRUE
\* the budget test: not (current_length + len(formatted_line) > max_chars)
fits(current_length, line, N) == current_length + Len(line) <= N

RECURSIVE parsed_lines(_, _, _, _)
\* the loop over reversed(messages) from message i down, followed by
\* parsed_lines.reverse(): the kept lines in chronological order
parsed_lines(msgs, i, current_length, N) ==
    IF i = 0 THEN <<>>
    ELSE IF msgs[i].content = <<>>
         THEN parsed_lines(msgs, i - 1, current_length, N)
    ELSE LET line == formatted_line(msgs[i])
         IN  IF ~fits(current_length, line, N) THEN <<>>
             ELSE parsed_lines(msgs, i - 1, current_length + Len(line), N)
                  \o <<line>>

RECURSIVE join(_)
join(lines) == IF lines = <<>> THEN <<>> ELSE Head(lines) \o join(Tail(lines))

format_messages(msgs, N) == strip(join(parsed_lines(msgs, Len(msgs), 0, N)))

\* format_user_info: the labels of the lines it emits for a stored row
format_user_info(row) ==
    {"Name", "Occupation"} \cup (IF row["dob"] # NULL THEN {"Age"} ELSE {})

BlankRow == [f \in UserFields |-> NULL]

\* ------------------------------------------------------------- the store
\* the columns of the three tables a profile is saved to (one activity column
\* stands for the five, which are all treated alike)
BmiFields == {"weight", "height"}
ActivityFields == {"steps"}
AllFields == UserFields \cup BmiFields \cup ActivityFields

\* the values a column takes in the store specification
FieldValues(f) == IF f = "name" THEN {1, 2} ELSE {1}
RowsOf(fields) ==
    {r \in [fields -> {NULL, 1, 2}] :
        \A f \in fields : r[f] = NULL \/ r[f] \in FieldValues(f)}
Tables(fields) == [UserIds -> {None} \cup {Some(r) : r \in RowsOf(fields)}]
\* the deltas a caller can save: a value for each captured field
SavedFields == {"name", "dob", "weight", "steps"}
StoreDeltas ==
    {d \in UNION {[F -> {1, 2}] : F \in SUBSET SavedFields} :
        \A f \in DOMAIN d : d[f] \in FieldValues(f)}

\* data_dict.get(f): the captured value, or None
Get(delta, f) == IF f \in DOMAIN delta THEN delta[f] ELSE NULL

Coalesce_overwrite(new, old) == new
Coalesce_add(new, old) == IF new # NULL THEN old + new ELSE old
\* COALESCE(excluded.f, f)
Coalesce(new, old) == IF new # NULL THEN new ELSE old

\* INSERT ... ON CONFLICT DO UPDATE SET f = COALESCE(excluded.f, f)
Upsert(row, fields, delta) ==
    IF row = None THEN Some([f \in fields |-> Get(delta, f)])
    ELSE Some([f \in fields |-> Coalesce(Get(delta, f), row[1][f])])

insert_or_replace(users, uid) == [users EXCEPT ![uid] = Some(BlankRow)]
\* INSERT OR IGNORE INTO Users (user_id)
insert_or_ignore(users, uid) ==
    IF users[uid] = None THEN [users EXCEPT ![uid] = Some(BlankRow)] ELSE users

Captures(delta, fields) == DOMAIN delta \cap fields # {}

\* the outcomes of a save: committed; an error inside the try block (printed,
\* rolled back, not re-raised); connect_db or the PRAGMA raising before it
SaveOutcomes == {"ok", "db_error", "connect_error"}

\* the store as the connection sees it once the first n statements have run
executed_upserts(S, uid, delta, n) ==
    [users |-> IF n >= 1 /\ Captures(delta, UserFields)
               THEN [S.users EXCEPT ![uid] = Upsert(@, UserFields, delta)]
               ELSE S.users,
     bmi |-> IF n >= 2 /\ Captures(delta, BmiFields)
             THEN [S.bmi EXCEPT ![uid] = Upsert(@, BmiFields, delta)]
             ELSE S.bmi,
     activity |-> IF n >= 3 /\ Captures(delta, ActivityFields)
                  THEN [S.activity EXCEPT ![uid] = Upsert(@, ActivityFields, delta)]
                  ELSE S.activity]

rollback_keep(S, T) == T
\* conn.rollback(): the store as it was before the transaction
rollback(S, T) == S

\* save_extracted_profile when an error inside the try block is raised after
\* n of the three upserts have run (n = 3: by the commit)
save_extracted_profile_at(S, uid, delta, outcome, n) ==
    IF outcome = "connect_error" THEN S
    ELSE IF outcome = "ok" THEN executed_upserts(S, uid, delta, 3)
    ELSE rollback(S, executed_upserts(S, uid, delta, n))

\* save_extracted_profile: the three upserts in one transaction
save_extracted_profile(S, uid, delta, outcome) ==
    save_extracted_profile_at(S, uid, delta, outcome, 3)

\* save_bmi_to_db and save_activity_to_db: one upsert each, committed at once
save_bmi_to_db(bmi, uid, delta) ==
    [bmi EXCEPT ![uid] = Upsert(@, BmiFields, delta)]
save_activity_to_db(activity, uid, delta) ==
    [activity EXCEPT ![uid] = Upsert(@, ActivityFields, delta)]

TheStore == [users |-> db_users, bmi |-> db_bmi, activity |-> db_activity]
SetStore(S) ==
    /\ db_users' = S.users
    /\ db_bmi' = S.bmi
    /\ db_activity' = S.activity

Full(fields) == [f \in fields |-> 1]
NoRows == [u \in UserIds |-> None]
AllRows(r) == [u \in UserIds |-> Some(r)]
\* the stores a run starts from: no record at all, records logged for today
\* by a user without a Users row, a blank Users row, a complete profile
StoreSamples ==
    {[users |-> NoRows, bmi |-> NoRows, activity |-> NoRows],
     [users |-> NoRows, bmi |-> AllRows(Full(BmiFields)),
      activity |-> AllRows(Full(ActivityFields))],
     [users |-> AllRows(BlankRow), bmi |-> NoRows, activity |-> NoRows],
     [users |-> AllRows(Full(UserFields)), bmi |-> AllRows(Full(BmiFields)),
      activity |-> AllRows(Full(ActivityFields))]}

\* ---------------------------------------------------------------- routers
severity_router_gt(rate) == IF rate > 4 THEN "interrupt" ELSE "continue"
severity_router_low(rate) == IF rate >= 3 THEN "interrupt" ELSE "continue"
severity_router(rate) == IF rate >= 4 THEN "interrupt" ELSE "continue"

topic_router_swapped(t) == IF t = "ask" THEN "update" ELSE "ask"
topic_router(t) == IF t = "ask" THEN "ask" ELSE "update"

after_extract_router_swapped(t) == IF t = "update" THEN "ask" ELSE "end"
after_extract_router(t) == IF t = "update_ask" THEN "ask" ELSE "end"

\* set_graph_response: the edges of the compiled graph
InterruptEdge_on == "extract_topic"
\* add_edge("severity_interrupt", END)
InterruptEdge == "END"
EntryPoint_skip == "rate_severity"
EntryPoint == "load_user_info"
SeverityEdges == [continue |-> "extract_topic", interrupt |-> "severity_interrupt"]
TopicEdges == [ask |-> "generate_raw", update |-> "extract_profile"]
AfterExtractEdges == [ask |-> "generate_raw", end |-> "END"]

\* -------------------------------------------------------------------- Init
InitRun ==
    /\ pc = "idle"
    /\ app = "idle"
    /\ handler = "none"
    /\ sent = <<>>
    /\ user_id = NoUser
    /\ messages = <<>>
    /\ question = ""
    /\ topic = Unset
    /\ use_info = FALSE
    /\ is_new_user = FALSE
    /\ user_info = None
    /\ user_context = None
    /\ pending_extraction = None
    /\ use_rag = FALSE
    /\ documents = None
    /\ invoke_qa = {}
    /\ severity_rate = 0
    /\ response = ""
    /\ interrupted = FALSE
    /\ view = None
    /\ ephemeral = {}
    /\ prev_save = None
    /\ last_save = None
    /\ save_result = "none"
    /\ db_access = FALSE
    /\ svc = None
    /\ press = None
    /\ topic_in = Unset
    /\ use_info_in = FALSE
    /\ llm = [s \in Stages |-> "none"]
    /\ is_question = FALSE
    /\ executed = <<>>

IdleFmt ==
    /\ fm_messages = <<>>
    /\ max_chars = 0
    /\ formatted = None

IdleRace == racers = <<>>

IdlePair == runs = <<>> /\ heap = <<>>

IdleSumm ==
    /\ db_summary = {}
    /\ today = 1
    /\ summary_result = None
    /\ summary_saved = <<>>

Idle ==
    /\ IdleFmt /\ IdleRace /\ IdlePair /\ IdleSumm
    /\ bmi_call = <<>> /\ tx_call = <<>>

\* the request, the front end and the observations: all but the store
core == <<pc, app, handler, sent, state, hist, view, ephemeral, saves,
          save_result, svc, press>>

Init ==
    /\ InitRun
    /\ Idle
    /\ \E S \in StoreSamples :
          /\ db_users = S.users
          /\ db_bmi = S.bmi
          /\ db_activity = S.activity

\* ------------------------------------------------------- generate_response
effective_use_info_kept(uid, ui) == ui
\* if user_id is None: use_info = False
effective_use_info(uid, ui) == IF uid = NoUser THEN FALSE ELSE ui

\* the preamble of generate_response and the input handed to graph.invoke
generate_response(msgs, uid, t, ui, ur) ==
    /\ user_id' = uid
    /\ messages' = msgs
    /\ question' = derive_question(msgs)
    /\ topic' = t
    /\ topic_in' = t
    /\ use_info_in' = ui
    /\ use_info' = effective_use_info(uid, ui)
    /\ is_new_user' = FALSE
    /\ user_info' = None
    /\ user_context' = None
    /\ pending_extraction' = None
    /\ use_rag' = ur
    /\ documents' = None
    /\ invoke_qa' = {}
    /\ severity_rate' = 0
    /\ response' = ""
    /\ interrupted' = FALSE
    /\ pc' = EntryPoint
    /\ app' = "called"
    /\ UNCHANGED <<db_users, llm, is_question, executed, db_access, other>>

\* a caller other than the three handlers (the test harness, /askraw)
caller ==
    /\ app = "idle"
    /\ \E msgs \in Histories(MsgContents), uid \in UserIds \cup {NoUser},
          t \in Topics \cup {Unset}, ui \in BOOLEAN, ur \in BOOLEAN :
          generate_response(msgs, uid, t, ui, ur)
    /\ handler' = "caller"
    /\ UNCHANGED sent

\* ----------------------------------------------------------- the nodes
Run(node) == /\ pc = node
             /\ executed' = Append(executed, node)

\* load_user_info: optional retrieval, then the lookup of the stored profile
\* (and the insert of a blank record for a user id without one)
RagOutcomes == {"unavailable", "error", "empty", "docs"}
DbOutcomes == {"ok", "error"}

retrieve_unasked(ur, rag, query, docs) ==
    IF rag \in {"empty", "docs"} /\ query # <<>>
    THEN Some(IF rag = "docs" THEN "docs" ELSE "")
    ELSE docs
\* the retrieval of load_user_info: documents is set when use_rag is on, the
\* retriever was loaded, the query is not blank and the call returned
retrieve(ur, rag, query, docs) ==
    IF ur /\ rag \in {"empty", "docs"} /\ query # <<>>
    THEN Some(IF rag = "docs" THEN "docs" ELSE "")
    ELSE docs

load_user_info_with(rag, fetch, insert) ==
    /\ Run("load_user_info")
    /\ documents' = retrieve(use_rag, rag, format_lines(messages), documents)
    /\ IF ~use_info \/ user_id = NoUser
       THEN UNCHANGED <<is_new_user, user_info, user_context, db_users, db_access>>
       ELSE LET found == IF fetch = "ok" THEN db_users[user_id] ELSE None
            IN  /\ db_access' = TRUE
                /\ IF found = None
                   THEN /\ IF insert = "ok"
                           THEN /\ db_users' = insert_or_ignore(db_users, user_id)
                                /\ is_new_user' = TRUE
                                /\ user_info' = None
                           ELSE UNCHANGED <<db_users, is_new_user, user_info>>
                        /\ UNCHANGED user_context
                   ELSE /\ is_new_user' = FALSE
                        /\ user_info' = found
                        /\ user_context' = Some(format_user_info(found[1]))
                        /\ UNCHANGED db_users
    /\ pc' = "rate_severity"
    /\ UNCHANGED <<db_bmi, db_activity, ephemeral, saves, save_result, aux,
                   press, view, app, handler, sent, is_question, user_id, messages,
                   question, topic, use_info, pending_extraction, use_rag,
                   invoke_qa, severity_rate, response, interrupted, topic_in,
                   use_info_in, llm>>

load_user_info ==
    /\ \E rag \in RagOutcomes, fetch \in DbOutcomes, insert \in DbOutcomes :
          load_user_info_with(rag, fetch, insert)
    /\ UNCHANGED svc

create_invoke_qa_reset(qa, node_name) == {node_name}
\* create_invoke_qa: the keys of the audit log
create_invoke_qa(qa, node_name) == qa \cup {node_name}

SeverityFallback_keep == 4 + 0
\* the rate the except branch of rate_severity assigns
SeverityFallback == 0

\* rate_severity, then the conditional edge chosen by severity_router
rate_severity ==
    /\ Run("rate_severity")
    /\ \E out \in {"fail", "ok"}, rate \in Rates :
          /\ out = "fail" => rate = 0      \* the unused input of a failed call
          /\ llm' = [llm EXCEPT !["rate_severity"] = out]
          /\ IF out = "ok"
             THEN /\ severity_rate' = rate
                  /\ invoke_qa' = create_invoke_qa(invoke_qa, "rate_severity")
             ELSE /\ severity_rate' = SeverityFallback
                  /\ UNCHANGED invoke_qa
    /\ pc' = SeverityEdges[severity_router(severity_rate')]
    /\ UNCHANGED <<other, db_access, app, handler, sent, is_question, user_id, messages, question, topic, use_info,
                   is_new_user, user_info, user_context, pending_extraction,
                   use_rag, documents, response, interrupted, db_users,
                   topic_in, use_info_in>>

severity_interrupt ==
    /\ Run("severity_interrupt")
    /\ interrupted' = TRUE
    /\ pc' = InterruptEdge
    /\ UNCHANGED <<other, db_access, app, handler, sent, is_question, user_id, messages, question, topic, use_info,
                   is_new_user, user_info, user_context, pending_extraction,
                   use_rag, documents, invoke_qa, severity_rate, response,
                   db_users, topic_in, use_info_in, llm>>

classify_fail_as_info(out) == IF out = "noinfo" THEN "ask" ELSE "update_ask"
classify_info_as_update(out) == IF out = "info" THEN "update" ELSE "ask"
\* the topic extract_topic assigns from the classifier's outcome
\* (TopicChecklist has the single field has_info)
classify(out) == IF out = "info" THEN "update_ask" ELSE "ask"

topic_preassigned_never(t) == FALSE
\* the early return of extract_topic: the caller supplied the topic
topic_preassigned(t) == t # Unset

\* extract_topic, then the conditional edge chosen by topic_router
extract_topic ==
    /\ Run("extract_topic")
    /\ IF topic_preassigned(topic)
       THEN UNCHANGED <<topic, invoke_qa, llm, is_question>>
       ELSE \E out \in {"fail", "info", "noinfo"}, q \in BOOLEAN :
               /\ llm' = [llm EXCEPT !["extract_topic"] = out]
               /\ is_question' = q
               /\ topic' = classify(out)
               /\ invoke_qa' = IF out = "fail" THEN invoke_qa
                               ELSE create_invoke_qa(invoke_qa, "extract_topic")
    /\ pc' = TopicEdges[topic_router(topic')]
    /\ UNCHANGED <<other, db_access, app, handler, sent, user_id, messages, question, use_info,
                   is_new_user, user_info, user_context, pending_extraction,
                   use_rag, documents, severity_rate, response, interrupted,
                   db_users, topic_in, use_info_in>>

\* where the run goes when the model call of a node raises: extract_profile
\* and generate_raw have no try/except, so graph.invoke raises
OnUncaught(node) == "raised"

\* extract_profile, then the conditional edge chosen by after_extract_router
extract_profile ==
    /\ Run("extract_profile")
    /\ \/ /\ llm' = [llm EXCEPT !["extract_profile"] = "fail"]
          /\ pc' = OnUncaught("extract_profile")
          /\ UNCHANGED <<pending_extraction, invoke_qa>>
       \/ \E extracted \in Deltas :
             /\ llm' = [llm EXCEPT !["extract_profile"] = "ok"]
             /\ pending_extraction' = Some(extracted)
             /\ invoke_qa' = create_invoke_qa(invoke_qa, "extract_profile")
             /\ pc' = AfterExtractEdges[after_extract_router(topic)]
    /\ UNCHANGED <<other, db_access, app, handler, sent, is_question, user_id, messages, question, topic, use_info,
                   is_new_user, user_info, user_context, use_rag, documents,
                   severity_rate, response, interrupted, db_users, topic_in, use_info_in>>

\* the human turn generate_raw hands to the model: the formatted transcript,
\* or the bare text "Hello" when it is blank
formatted_input(msgs) ==
    IF format_lines(msgs) = <<>>
    THEN <<[role |-> "none", content |-> "Hello"]>>
    ELSE format_lines(msgs)

\* generate_raw, then the edge to END
generate_raw ==
    /\ Run("generate_raw")
    /\ \/ /\ llm' = [llm EXCEPT !["generate_raw"] = "fail"]
          /\ pc' = OnUncaught("generate_raw")
          /\ UNCHANGED <<response, invoke_qa>>
       \/ \E content \in Contents :
             /\ llm' = [llm EXCEPT !["generate_raw"] =
                                 IF Strip(content) = "" THEN "blank" ELSE "text"]
             /\ response' = Strip(content)
             /\ invoke_qa' = create_invoke_qa(invoke_qa, "generate_raw")
             /\ pc' = "END"
    /\ UNCHANGED <<other, db_access, app, handler, sent, is_question, user_id, messages, question, topic, use_info,
                   is_new_user, user_info, user_context, pending_extraction,
                   use_rag, documents, severity_rate, interrupted, db_users,
                   topic_in, use_info_in>>

\* the caller gets (response, result) back, or the exception
caller_return ==
    /\ handler = "caller"
    /\ app = "called"
    /\ pc \in {"END", "raised"}
    /\ app' = "done"
    /\ UNCHANGED <<pc, handler, sent, state, db_users, hist, other>>

\* --------------------------------------------------------- the front end
\* build_query_with_history: the kept messages of the channel (their content
\* is never empty), then the current content when one is passed
build_query_with_history(current_content) ==
    {h \o (IF current_content # ""
           THEN <<[role |-> "user", content |-> Strip(current_content)]>>
           ELSE <<>>) : h \in Histories({"a"})}

IsWaiting(m) == m = "waiting"
NotWaiting(m) == ~IsWaiting(m)

\* send_response_safely: nothing is sent for an empty text; otherwise the
\* waiting message is deleted and the text is sent (in chunks)
send_response_safely(out, text) ==
    IF text = "" THEN SelectSeq(out, NotWaiting)
    ELSE Append(SelectSeq(out, NotWaiting), "response")

\* the truth value of a pending extraction: None and {} are both falsy
Truthy(pending) == pending # None /\ DOMAIN pending[1] # {}

\* ProfileConfirmView.__init__
ProfileConfirmView(uid, extracted_data) ==
    Some([user_id |-> uid, data |-> extracted_data])

\* who can press a button of a view: its owner or somebody else
Pressers == UserIds \cup {2}

\* the record of a committed profile save and of the one before it
Committed(uid, delta) ==
    /\ last_save' = Some([user_id |-> uid, delta |-> delta])
    /\ prev_save' = IF last_save # None /\ last_save[1].user_id = uid
                    THEN last_save ELSE None

is_owner_anyone(presser, v) == presser \in Pressers
\* interaction.user.id != self.user_id: the press is refused
is_owner(presser, v) == presser = v.user_id

\* ProfileConfirmView.confirm
confirm ==
    /\ view # None
    /\ \E presser \in Pressers, outcome \in SaveOutcomes :
          /\ press' = Some([user |-> presser, button |-> "confirm"])
          /\ IF ~is_owner(presser, view[1])
             THEN /\ ephemeral' = ephemeral \cup {"not_owner"}
                  /\ UNCHANGED <<store, view, sent, saves, save_result>>
             ELSE /\ SetStore(save_extracted_profile(TheStore, view[1].user_id,
                                                     view[1].data, outcome))
                  /\ save_result' = outcome
                  /\ IF outcome = "ok"
                     THEN Committed(view[1].user_id, view[1].data)
                     ELSE UNCHANGED saves
                  /\ IF outcome = "connect_error"
                     THEN /\ ephemeral' = ephemeral \cup {"save_error"}
                          /\ UNCHANGED <<view, sent>>
                     ELSE /\ sent' = Append(sent, "saved")
                          /\ view' = None
                          /\ UNCHANGED ephemeral
    /\ UNCHANGED <<pc, app, handler, state, hist, svc, aux>>

\* ProfileConfirmView.cancel
cancel ==
    /\ view # None
    /\ \E presser \in Pressers :
          /\ press' = Some([user |-> presser, button |-> "cancel"])
          /\ IF ~is_owner(presser, view[1])
             THEN /\ ephemeral' = ephemeral \cup {"not_owner"}
                  /\ UNCHANGED <<view, sent>>
             ELSE /\ sent' = Append(sent, "cancelled")
                  /\ view' = None
                  /\ UNCHANGED ephemeral
    /\ UNCHANGED <<pc, app, handler, state, hist, store, saves, save_result,
                   svc, aux>>

\* on_message up to its call of generate_response (messages of the bot itself
\* and channel messages without the prefix are ignored before this point)
on_message ==
    /\ app = "idle"
    /\ handler' = "on_message"
    /\ \E author \in UserIds, is_dm \in BOOLEAN, content \in {"", "a"} :
          IF content = "" /\ ~is_dm
          THEN /\ sent' = Append(sent, "greeting")
               /\ app' = "done"
               /\ UNCHANGED <<pc, state, db_users, hist, other>>
          ELSE /\ sent' = Append(sent, "waiting")
               /\ \E history \in build_query_with_history("") :
                     generate_response(history, author, Unset, TRUE, TRUE)

severity_notice_no_return(intr, rate) ==
    (IF intr THEN <<"urgent">> ELSE <<>>)
        \o (IF rate >= 2 THEN <<"caution">> ELSE <<>>)
\* the end of on_message: the urgent-care embed and return when interrupted,
\* else the warning embed when severity_rate >= 2
severity_notice(intr, rate) ==
    IF intr THEN <<"urgent">>
    ELSE IF rate >= 2 THEN <<"caution">>
    ELSE <<>>

\* on_message after generate_response has returned or raised
on_message_reply ==
    /\ handler = "on_message"
    /\ app = "called"
    /\ pc \in {"END", "raised"}
    /\ app' = "done"
    /\ IF pc = "raised"
       THEN sent' = Append(sent, "error")
       ELSE LET s1 == IF response # "" THEN send_response_safely(sent, response)
                      ELSE sent
                s2 == IF Truthy(pending_extraction) THEN Append(s1, "confirm_view")
                      ELSE s1
            IN  sent' = s2 \o severity_notice(interrupted, severity_rate)
    /\ view' = IF pc = "END" /\ Truthy(pending_extraction)
               THEN ProfileConfirmView(user_id, pending_extraction[1]) ELSE view
    /\ UNCHANGED <<pc, handler, state, db_users, hist, rest>>

\* /ask up to its call of generate_response
ask ==
    /\ app = "idle"
    /\ handler' = "ask"
    /\ \E author \in UserIds, q \in {" ", "a"} : \E history \in build_query_with_history(q) :
          generate_response(history, author, "ask", TRUE, TRUE)
    /\ UNCHANGED sent

\* /ask after generate_response: an exception leaves the command unanswered
ask_reply ==
    /\ handler = "ask"
    /\ app = "called"
    /\ pc \in {"END", "raised"}
    /\ app' = "done"
    /\ sent' = IF pc = "raised" THEN sent ELSE send_response_safely(sent, response)
    /\ UNCHANGED <<pc, handler, state, db_users, hist, other>>

\* /update-user up to its call of generate_response
update_user ==
    /\ app = "idle"
    /\ handler' = "update_user"
    /\ \E author \in UserIds, info \in {" ", "a"} : \E history \in build_query_with_history(info) :
          generate_response(history, author, "update", TRUE, TRUE)
    /\ UNCHANGED sent

\* /update-user after generate_response
update_user_reply ==
    /\ handler = "update_user"
    /\ app = "called"
    /\ pc \in {"END", "raised"}
    /\ app' = "done"
    /\ sent' = IF pc = "END" /\ Truthy(pending_extraction)
               THEN Append(sent, "confirm_view") ELSE sent
    /\ view' = IF pc = "END" /\ Truthy(pending_extraction)
               THEN ProfileConfirmView(user_id, pending_extraction[1]) ELSE view
    /\ UNCHANGED <<pc, handler, state, db_users, hist, rest>>

Graph ==
    \/ load_user_info
    \/ rate_severity
    \/ severity_interrupt
    \/ extract_topic
    \/ extract_profile
    \/ generate_raw

Next ==
    \/ caller
    \/ on_message
    \/ ask
    \/ update_user
    \/ Graph
    \/ caller_return
    \/ on_message_reply
    \/ ask_reply
    \/ update_user_reply
    \/ confirm
    \/ cancel


Spec == Init /\ [][Next]_vars

\* ------------------------------------------------ the store specification
\* Any sequence of saves on any store: save_extracted_profile called with any
\* delta, the /log command, and the insert of load_user_info for a new user.
InitStore ==
    /\ InitRun
    /\ Idle
    /\ db_users \in Tables(UserFields)
    /\ db_bmi \in Tables(BmiFields)
    /\ db_activity \in Tables(ActivityFields)

frame == <<pc, app, handler, sent, hist, view, save_result, svc, press, aux>>
request == <<user_id, messages, question, topic, use_info, user_info,
             user_context, pending_extraction, use_rag, documents, invoke_qa,
             severity_rate, response, interrupted>>

\* a write other than a profile save ends the sequence of profile saves
Interleaved == IF store' # store THEN prev_save' = None /\ last_save' = None
               ELSE UNCHANGED saves

save_profile ==
    /\ \E uid \in UserIds, delta \in StoreDeltas, outcome \in SaveOutcomes :
          /\ SetStore(save_extracted_profile(TheStore, uid, delta, outcome))
          /\ IF outcome = "ok" THEN Committed(uid, delta) ELSE UNCHANGED saves
    /\ UNCHANGED <<frame, request, is_new_user, ephemeral>>

\* the /log command: save_activity_to_db, then save_bmi_to_db, each called when
\* one of its values is given and committed on its own; an error is reported
log ==
    /\ \E uid \in UserIds, delta \in StoreDeltas,
          fail \in {"none", "activity", "bmi"} :
          /\ DOMAIN delta \subseteq BmiFields \cup ActivityFields
          /\ db_activity' =
                IF Captures(delta, ActivityFields) /\ fail # "activity"
                THEN save_activity_to_db(db_activity, uid, delta)
                ELSE db_activity
          /\ db_bmi' =
                IF /\ Captures(delta, BmiFields)
                   /\ fail # "bmi"
                   /\ ~(Captures(delta, ActivityFields) /\ fail = "activity")
                THEN save_bmi_to_db(db_bmi, uid, delta)
                ELSE db_bmi
          /\ ephemeral' = ephemeral \cup
                {IF \/ Captures(delta, ActivityFields) /\ fail = "activity"
                    \/ Captures(delta, BmiFields) /\ fail = "bmi"
                 THEN "log_error" ELSE "log_updated"}
    /\ UNCHANGED db_users
    /\ Interleaved
    /\ UNCHANGED <<frame, request, is_new_user>>

\* the insert load_user_info makes for a user id it got no row for
new_user_insert ==
    /\ \E uid \in UserIds : db_users' = insert_or_ignore(db_users, uid)
    /\ is_new_user' = TRUE
    /\ UNCHANGED <<db_bmi, db_activity>>
    /\ Interleaved
    /\ UNCHANGED <<frame, request, ephemeral>>

NextStore ==
    \/ save_profile
    \/ log
    \/ new_user_insert

SpecStore == InitStore /\ [][NextStore]_vars

\* ------------------------------------------ the format_messages specification
\* One call of format_messages on any short history with any budget.
FmHistories ==
    UNION {[1 .. n -> [role : Roles, content : Texts]] : n \in 0 .. MaxFmtMsgs}

EmptyStore ==
    /\ db_users = NoRows
    /\ db_bmi = NoRows
    /\ db_activity = NoRows

InitFormat ==
    /\ InitRun
    /\ EmptyStore
    /\ IdleRace /\ IdlePair /\ IdleSumm
    /\ bmi_call = <<>> /\ tx_call = <<>>
    /\ fm_messages \in FmHistories
    /\ max_chars \in 0 .. MaxChars
    /\ formatted = None

format_call ==
    /\ formatted = None
    /\ formatted' = Some(format_messages(fm_messages, max_chars))
    /\ UNCHANGED <<core, store, fm_messages, max_chars, racers, pair, summ,
                   bmi_call, tx_call>>

NextFormat == format_call

SpecFormat == InitFormat /\ [][NextFormat]_vars

\* ------------------------------------------- the load_user_info specification
\* A request up to the end of load_user_info, with the answers the retriever
\* and the database gave it on record.
load_user_info_observed ==
    \E rag \in RagOutcomes, fetch \in DbOutcomes, insert \in DbOutcomes :
        /\ load_user_info_with(rag, fetch, insert)
        /\ svc' = Some([rag |-> rag, fetch |-> fetch, insert |-> insert,
                        users |-> db_users])

NextLoad ==
    \/ caller
    \/ load_user_info_observed

SpecLoad == Init /\ [][NextLoad]_vars

\* ------------------------------------------------- the new-user specification
\* Runs whose load_user_info handles the same user id, never seen before:
\* the lookup and the insert of each are separate steps, a run may be retried,
\* and a profile may be saved for the id at any moment.
Racers == 1 .. 2
RaceUser == CHOOSE u \in UserIds : TRUE

InitRace ==
    /\ InitRun
    /\ IdleFmt /\ IdlePair /\ IdleSumm
    /\ bmi_call = <<>> /\ tx_call = <<>>
    /\ EmptyStore
    /\ racers = [p \in Racers |->
                   [at |-> "lookup", is_new_user |-> FALSE, user_info |-> None]]

raceframe == <<core, fmt, pair, summ, bmi_call, tx_call>>

\* user_info = fetch_user_info(user_id)
race_lookup(p) ==
    /\ racers[p].at = "lookup"
    /\ \E fetch \in DbOutcomes :
          LET found == IF fetch = "ok" THEN db_users[RaceUser] ELSE None
          IN  racers' = [racers EXCEPT ![p] =
                 IF found = None THEN [@ EXCEPT !.at = "insert"]
                 ELSE [at |-> "done", is_new_user |-> FALSE, user_info |-> found]]
    /\ UNCHANGED <<store, raceframe>>

\* the try block that inserts the blank record
race_insert(p) ==
    /\ racers[p].at = "insert"
    /\ \E insert \in DbOutcomes :
          IF insert = "ok"
          THEN /\ db_users' = insert_or_ignore(db_users, RaceUser)
               /\ racers' = [racers EXCEPT ![p] =
                     [at |-> "done", is_new_user |-> TRUE, user_info |-> None]]
          ELSE /\ racers' = [racers EXCEPT ![p].at = "done"]
               /\ UNCHANGED db_users
    /\ UNCHANGED <<db_bmi, db_activity, raceframe>>

\* the run is invoked again with the same input
race_retry(p) ==
    /\ racers[p].at = "done"
    /\ racers' = [racers EXCEPT ![p] =
          [at |-> "lookup", is_new_user |-> FALSE, user_info |-> None]]
    /\ UNCHANGED <<store, raceframe>>

\* a confirmed delta is saved for the user id
race_save ==
    /\ \E delta \in Deltas, outcome \in SaveOutcomes :
          SetStore(save_extracted_profile(TheStore, RaceUser, delta, outcome))
    /\ UNCHANGED <<racers, raceframe>>

NextRace ==
    \/ \E p \in Racers : race_lookup(p)
    \/ \E p \in Racers : race_insert(p)
    \/ \E p \in Racers : race_retry(p)
    \/ race_save

SpecRace == InitRace /\ [][NextRace]_vars

\* ------------------------------------------ the concurrent-runs specification
\* Two invocations of generate_response for different users (use_info and
\* use_rag off), their node steps interleaved.  The answers the model gives
\* each invocation are fixed beforehand.  AgentState holds values, except
\* invoke_qa, which refers to a dict object that create_invoke_qa updates in
\* place.
Invocations == 1 .. 2
Answers == [rate : {0, 4}, has_info : {"info", "noinfo"}]
PairTopics == {Unset, "update"}
ExtractedAnswer == [name |-> 1]
TextAnswer == "a"

InitPair ==
    /\ InitRun
    /\ IdleFmt /\ IdleRace /\ IdleSumm
    /\ bmi_call = <<>> /\ tx_call = <<>>
    /\ EmptyStore
    /\ heap = <<>>
    /\ runs \in [Invocations ->
                   [pc : {"idle"}, topic_in : PairTopics, answers : Answers,
                    s : {None}]]

new_dict_shared(h) == Len(<<h>>)
\* "invoke_qa": {} in the input of graph.invoke: a new dict object
new_dict(h) == Len(h) + 1

\* the input generate_response hands to graph.invoke
graph_input(uid, t, qa) ==
    [user_id |-> uid, topic |-> t, pending_extraction |-> None,
     invoke_qa |-> qa, severity_rate |-> 0, response |-> "",
     interrupted |-> FALSE]

\* a node applied to an AgentState s whose invoke_qa dict holds the keys qa:
\* the state and the dict afterwards, and the node the edges lead to
node_result(node, s, qa, a) ==
    CASE node = "load_user_info" ->
            [s |-> s, qa |-> qa, next |-> "rate_severity"]
      [] node = "rate_severity" ->
            [s |-> [s EXCEPT !.severity_rate = a.rate],
             qa |-> create_invoke_qa(qa, "rate_severity"),
             next |-> SeverityEdges[severity_router(a.rate)]]
      [] node = "severity_interrupt" ->
            [s |-> [s EXCEPT !.interrupted = TRUE], qa |-> qa, next |-> "END"]
      [] node = "extract_topic" ->
            IF topic_preassigned(s.topic)
            THEN [s |-> s, qa |-> qa, next |-> TopicEdges[topic_router(s.topic)]]
            ELSE [s |-> [s EXCEPT !.topic = classify(a.has_info)],
                  qa |-> create_invoke_qa(qa, "extract_topic"),
                  next |-> TopicEdges[topic_router(classify(a.has_info))]]
      [] node = "extract_profile" ->
            [s |-> [s EXCEPT !.pending_extraction = Some(ExtractedAnswer)],
             qa |-> create_invoke_qa(qa, "extract_profile"),
             next |-> AfterExtractEdges[after_extract_router(s.topic)]]
      [] node = "generate_raw" ->
            [s |-> [s EXCEPT !.response = TextAnswer],
             qa |-> create_invoke_qa(qa, "generate_raw"),
             next |-> "END"]

pairframe == <<core, store, fmt, racers, summ, bmi_call, tx_call>>

pair_invoke(p) ==
    /\ runs[p].pc = "idle"
    /\ LET qa == new_dict(heap)
       IN  /\ heap' = IF qa > Len(heap) THEN Append(heap, {})
                      ELSE [heap EXCEPT ![qa] = {}]
           /\ runs' = [runs EXCEPT ![p].pc = EntryPoint,
                                   ![p].s = Some(graph_input(p, runs[p].topic_in, qa))]
    /\ UNCHANGED pairframe

pair_step(p) ==
    /\ runs[p].pc \notin {"idle", "END"}
    /\ LET s == runs[p].s[1]
           r == node_result(runs[p].pc, s, heap[s.invoke_qa], runs[p].answers)
       IN  /\ runs' = [runs EXCEPT ![p].s = Some(r.s), ![p].pc = r.next]
           /\ heap' = [heap EXCEPT ![s.invoke_qa] = r.qa]
    /\ UNCHANGED pairframe

NextPair ==
    \/ \E p \in Invocations : pair_invoke(p)
    \/ \E p \in Invocations : pair_step(p)

SpecPair == InitPair /\ [][NextPair]_vars

\* --------------------------------------------------- the summary specification
\* Any sequence of generate_summary calls, over several days.
NoText == "null"                 \* None in a text field
RiskLevels == {"Low", "Medium", "High"}
\* what the structured model call can return: a HealthSummary, whose fields
\* are optional
HealthSummary ==
    [overview : {"a"}, office_risk : RiskLevels \cup {NoText},
     office_summary : {"a"}]
\* the dict generate_summary returns when the model call or the save raises
FallbackSummary ==
    [overview |-> "sorry", office_risk |-> "--", office_summary |-> "--"]

SummaryKeys == UserIds \X (1 .. MaxDay)

\* the outcomes of save_summary_to_db: committed; sqlite3.Error from the
\* upsert or the commit (printed, nothing committed); an exception it lets
\* through (connect_db, the PRAGMA, the INSERT OR IGNORE)
SummarySaveOutcomes == {"ok", "sqlite_error", "raised"}

SummaryRow(uid, d, sm) ==
    [user_id |-> uid, date |-> d, overview |-> sm.overview,
     office_risk |-> sm.office_risk, office_summary |-> sm.office_summary]

upsert_summary_insert(rows, uid, d, sm) == rows \cup {SummaryRow(uid, d, sm)}
\* INSERT INTO UserSummaryRecords ... ON CONFLICT(user_id, date) DO UPDATE
\* SET overview = excluded.overview, ...
upsert_summary(rows, uid, d, sm) ==
    {r \in rows : ~(r.user_id = uid /\ r.date = d)} \cup {SummaryRow(uid, d, sm)}

InitSummary ==
    /\ InitRun
    /\ IdleFmt /\ IdleRace /\ IdlePair
    /\ bmi_call = <<>> /\ tx_call = <<>>
    /\ EmptyStore
    /\ db_summary = {}
    /\ today = 1
    /\ summary_result = None
    /\ summary_saved = [k \in SummaryKeys |-> None]

summaryframe == <<core, db_bmi, db_activity, fmt, racers, pair, bmi_call, tx_call>>

Returned(uid, sm) ==
    summary_result' = Some([user_id |-> uid, date |-> today, summary |-> sm])

generate_summary ==
    /\ \E uid \in UserIds \cup {NoUser}, model_fails \in BOOLEAN,
          sm \in HealthSummary, save \in SummarySaveOutcomes :
          IF model_fails
          THEN /\ Returned(uid, FallbackSummary)
               /\ UNCHANGED <<db_users, db_summary, summary_saved>>
          ELSE IF uid = NoUser
          THEN /\ Returned(uid, sm)
               /\ UNCHANGED <<db_users, db_summary, summary_saved>>
          ELSE IF save = "ok"
          THEN /\ db_users' = insert_or_ignore(db_users, uid)
               /\ db_summary' = upsert_summary(db_summary, uid, today, sm)
               /\ summary_saved' = [summary_saved EXCEPT ![<<uid, today>>] = Some(sm)]
               /\ Returned(uid, sm)
          ELSE /\ Returned(uid, IF save = "raised" THEN FallbackSummary ELSE sm)
               /\ UNCHANGED <<db_users, db_summary, summary_saved>>
    /\ UNCHANGED <<today, summaryframe>>

next_day ==
    /\ today < MaxDay
    /\ today' = today + 1
    /\ UNCHANGED <<db_users, db_summary, summary_result, summary_saved,
                   summaryframe>>

NextSummary ==
    \/ generate_summary
    \/ next_day

SpecSummary == InitSummary /\ [][NextSummary]_vars

\* ------------------------------------------- the get_bmi_analysis specification
\* One call of get_bmi_analysis with any weight and height of the range, either
\* of them possibly None.
\* The heights h (up to 300) for which weight / (h / 100) ** 2, evaluated in
\* binary64 at the weight h * h / 400 whose exact BMI is 25, comes out below
\* 25: (h / 100) ** 2 is rounded above h * h / 10000 (1.6 ** 2 is
\* 2.5600000000000005, and 64 / 2.5600000000000005 is 24.999999999999996).
\* At the integer weights whose exact BMI is 18.5 or 30 the height is a
\* multiple of 100 and the quotient is exact.
RoundsBelow == {20, 40, 80, 160, 220, 260}

\* get_bmi_analysis: the category in the text it returns (the number printed
\* in front of it is left out).  `not x` holds of None and of 0; bmi < num/den
\* is the comparison of the exact quotient, except at a tie, where the
\* rounding of the square decides.
get_bmi_analysis(weight, height) ==
    LET falsy(x) == x = None \/ x[1] = 0
        w == weight[1]
        h == height[1]
        bmi_below(num, den) ==
            \/ w * 10000 * den < num * h * h
            \/ w * 10000 * den = num * h * h /\ h \in RoundsBelow
    IN  IF falsy(weight) \/ falsy(height) \/ h <= 0 THEN "Unknown"
        ELSE IF bmi_below(37, 2) THEN "Underweight"
        ELSE IF bmi_below(25, 1) THEN "Normal weight"
        ELSE IF bmi_below(30, 1) THEN "Overweight"
        ELSE "Obese"

InitBmi ==
    /\ InitRun
    /\ EmptyStore
    /\ IdleFmt /\ IdleRace /\ IdlePair /\ IdleSumm
    /\ tx_call = <<>>
    /\ \E weight \in {None} \cup {Some(w) : w \in -1 .. MaxWeight},
          height \in {None} \cup {Some(h) : h \in -1 .. MaxHeight} :
          bmi_call = <<[weight |-> weight, height |-> height, result |-> None]>>

bmi_analysis ==
    /\ bmi_call[1].result = None
    /\ bmi_call' = <<[bmi_call[1] EXCEPT
                        !.result = Some(get_bmi_analysis(bmi_call[1].weight,
                                                         bmi_call[1].height))]>>
    /\ UNCHANGED <<core, store, fmt, racers, pair, summ, tx_call>>

SpecBmi == InitBmi /\ [][bmi_analysis]_vars

\* ------------------------------------- the save_extracted_profile specification
\* Calls of save_extracted_profile on the stores a run starts from, with any
\* delta, each committed, failing before the transaction, or failing inside
\* it after any number of its statements.
save_call ==
    /\ \E uid \in UserIds, delta \in StoreDeltas, outcome \in SaveOutcomes,
          n \in 0 .. 3 :
          /\ outcome # "db_error" => n = 3   \* n matters to a failure only
          /\ SetStore(save_extracted_profile_at(TheStore, uid, delta, outcome, n))
          /\ tx_call' = Some([user_id |-> uid, delta |-> delta,
                              outcome |-> outcome, n |-> n, before |-> TheStore])
    /\ UNCHANGED <<core, fmt, racers, pair, summ, bmi_call>>

SpecTx == Init /\ [][save_call]_vars

\* ================================================================= claims
Range(seq) == {seq[i] : i \in DOMAIN seq}
Last(seq) == seq[Len(seq)]
Ran(node) == node \in Range(executed)
Terminal == pc = "END"

\* C1: once rate_severity has left severity_rate >= 4, the run is at
\* severity_interrupt or has ended through it: generate_raw never executes,
\* response keeps its empty initial value and the final state is interrupted.
C1_SevereInterrupts ==
    severity_rate >= 4 =>
        /\ pc \in {"severity_interrupt", "END"}
        /\ ~Ran("generate_raw") /\ ~Ran("extract_topic")
        /\ response = ""
        /\ Terminal => interrupted /\ Last(executed) = "severity_interrupt"

C1_Witness ==
    Terminal /\ severity_rate = 4 /\ interrupted /\ topic_in = "update_ask"

\* C2 as stated: every terminal state has exactly one of interrupted = true
\* and response set.
C2_ExactlyOne == Terminal => (interrupted # (response # ""))

\* C2 amended: in a terminal state interrupted and a set response never hold
\* together, and neither holds only when the run ended from extract_profile
\* with topic = update or the text generate_raw got from the model was blank.
C2_AtMostOne ==
    Terminal =>
        /\ ~(interrupted /\ response # "")
        /\ (~interrupted /\ response = "") =>
              \/ topic = "update" /\ Last(executed) = "extract_profile"
              \/ llm["generate_raw"] = "blank"
        /\ (topic = "update" /\ ~interrupted) => response = ""

C2_Witness ==
    Terminal /\ topic = "update" /\ ~interrupted /\ response = ""
             /\ pending_extraction # None

\* C3: interrupted is true only in states with severity_rate >= 4; once
\* rate_severity has left severity_rate < 4 the next node is extract_topic and
\* interrupted stays false.
C3_InterruptedOnlyIfSevere ==
    /\ interrupted => severity_rate >= 4
    /\ (Ran("rate_severity") /\ severity_rate < 4) =>
          /\ ~interrupted
          /\ ~Ran("severity_interrupt")
          /\ Len(executed) = 2 => pc = "extract_topic"
          /\ Len(executed) > 2 => executed[3] = "extract_topic"

C3_Witness ==
    Terminal /\ Ran("rate_severity") /\ severity_rate = 3 /\ ~interrupted

\* C4: a failed severity call leaves severity_rate = 0, the run is not
\* interrupted and goes on to extract_topic.
C4_SeverityFailsOpen ==
    llm["rate_severity"] = "fail" =>
        /\ severity_rate = 0
        /\ ~interrupted /\ ~Ran("severity_interrupt")
        /\ Len(executed) = 2 => pc = "extract_topic"
        /\ Len(executed) > 2 => executed[3] = "extract_topic"

C4_Witness ==
    Terminal /\ llm["rate_severity"] = "fail" /\ Ran("extract_topic")

\* C5: a failed topic classification (topic not supplied) sets topic to ask:
\* the next node is generate_raw and extract_profile never executes.
C5_TopicFailsToAsk ==
    llm["extract_topic"] = "fail" =>
        /\ topic = "ask"
        /\ ~Ran("extract_profile")
        /\ Len(executed) = 3 => pc = "generate_raw"
        /\ Len(executed) > 3 => executed[4] = "generate_raw"

C5_Witness ==
    llm["extract_topic"] = "fail" /\ topic_in = Unset /\ Ran("generate_raw")

\* C6 as stated: no failure of a model call aborts the run, i.e. no exception
\* leaves the graph.
C6_NoExceptionLeavesGraph == pc # "raised"

\* C7 as stated: a request handled by on_message, /ask or /update-user ends
\* with a reply sent: the urgent-care directive when interrupted, an answer,
\* a confirmation prompt or a fallback otherwise.
Replies == {"response", "confirm_view", "error", "greeting"}
C7_AlwaysReplied ==
    (app = "done" /\ handler \in {"on_message", "ask", "update_user"}) =>
        IF interrupted /\ Terminal THEN "urgent" \in Range(sent)
        ELSE Range(sent) \cap Replies # {}

\* C8: a topic supplied by the caller is kept in every state of the run and
\* no classifier call is made; a topic, once set, never changes.
C8_TopicSetOnce ==
    [][ /\ topic_in' # Unset =>
              /\ topic' = topic_in'
              /\ llm'["extract_topic"] = "none"
              /\ "extract_topic" \notin invoke_qa'
        /\ topic # Unset => topic' = topic ]_vars

C8_Witness ==
    Terminal /\ topic_in = "update_ask" /\ Ran("extract_topic")
             /\ topic = "update_ask"

\* C9 as stated: a successful classification assigns update_ask for info in
\* a question, update for info alone, ask otherwise.
C9_Precedence ==
    llm["extract_topic"] \in {"info", "noinfo"} =>
        topic = IF llm["extract_topic"] = "info" /\ is_question THEN "update_ask"
                ELSE IF llm["extract_topic"] = "info" THEN "update"
                ELSE "ask"

\* C9 amended: a successful classification assigns update_ask when info is
\* detected, whether or not the message is a question, and ask otherwise; it
\* never assigns update.
C9_InfoMeansUpdateAsk ==
    llm["extract_topic"] \in {"info", "noinfo"} =>
        /\ topic = IF llm["extract_topic"] = "info" THEN "update_ask" ELSE "ask"
        /\ topic_in = Unset

C9_Witness ==
    Terminal /\ llm["extract_topic"] = "info" /\ ~is_question
             /\ topic = "update_ask"

\* C10 as stated: pending_extraction is non-null in a final state only if the
\* classifier ran and detected info.
C10_OnlyIfClassified ==
    (Terminal /\ pending_extraction # None) => llm["extract_topic"] = "info"

\* C10 amended: pending_extraction is non-null only if extract_profile
\* executed in an uninterrupted run whose topic is update or update_ask,
\* either detected by the classifier (info) or supplied by the caller; in
\* every other run it stays absent.
C10_OnlyIfExtracted ==
    pending_extraction # None =>
        /\ Ran("extract_profile") /\ llm["extract_profile"] = "ok"
        /\ ~interrupted
        /\ topic \in {"update", "update_ask"}
        /\ \/ llm["extract_topic"] = "info"
           \/ topic_in \in {"update", "update_ask"}

C10_Witness ==
    Terminal /\ pending_extraction # None /\ topic_in = "update"
             /\ llm["extract_topic"] = "none"

\* the stored value of a profile field of a user (NULL when there is no row)
StoredIn(S, u, f) ==
    LET row == IF f \in UserFields THEN S.users[u]
               ELSE IF f \in BmiFields THEN S.bmi[u] ELSE S.activity[u]
    IN  IF row = None THEN NULL ELSE row[1][f]

\* C11: a step of a run changes the store only by load_user_info inserting
\* a blank Users row for an id that had none; the only other change of the
\* store is the save of the confirmed delta when the owner presses Confirm.
C11_RunWritesNoExtraction ==
    [][ store' # store =>
          \/ /\ app = "called" /\ pc = "load_user_info"
             /\ user_id \in UserIds
             /\ db_users[user_id] = None
             /\ db_users' = [db_users EXCEPT ![user_id] = Some(BlankRow)]
             /\ UNCHANGED <<db_bmi, db_activity>>
          \/ /\ app = "done" /\ view # None
             /\ view[1].user_id = user_id
             /\ pending_extraction = Some(view[1].data)
             /\ save_result' = "ok"
             /\ TheStore' = save_extracted_profile(TheStore, user_id,
                                                  view[1].data, "ok") ]_vars

C11_Witness ==
    /\ pc = "END" /\ Truthy(pending_extraction) /\ view # None
    /\ "name" \in DOMAIN pending_extraction[1]
    /\ is_new_user
    /\ db_users[user_id] = Some(BlankRow)
    /\ db_bmi[user_id] = None

\* C12: a committed save of the delta that the previous committed save of
\* the same user saved leaves the three tables as they are.
C12_SaveIdempotent ==
    [][ (last_save' # None /\ last_save' = last_save /\ prev_save' = last_save')
           => store' = store ]_vars

C12_Witness ==
    /\ last_save # None /\ prev_save = last_save
    /\ DOMAIN last_save[1].delta = {"name", "weight", "steps"}
    /\ last_save[1].delta["name"] = 2

\* C13: after delta A and then delta B are saved for a user, every field B
\* captured holds B's value and every field only A captured holds A's value.
C13_MergeLaw ==
    (prev_save # None /\ last_save # None) =>
        LET u == last_save[1].user_id
            A == prev_save[1].delta
            B == last_save[1].delta
        IN  \A f \in AllFields :
               /\ f \in DOMAIN B => StoredIn(TheStore, u, f) = B[f]
               /\ f \in DOMAIN A \ DOMAIN B => StoredIn(TheStore, u, f) = A[f]

C13_Witness ==
    /\ prev_save # None /\ last_save # None
    /\ DOMAIN prev_save[1].delta = {"name", "dob", "steps"}
    /\ DOMAIN last_save[1].delta = {"name", "weight"}
    /\ prev_save[1].delta["name"] = 1 /\ last_save[1].delta["name"] = 2

\* C14: no save and no new-user insert turns a stored non-null field null.
C14_NeverNullAgain ==
    [][ \A u \in UserIds, f \in AllFields :
           StoredIn(TheStore, u, f) # NULL => StoredIn(TheStore', u, f) # NULL ]_vars

C14_Witness ==
    /\ last_save # None
    /\ DOMAIN last_save[1].delta = {"weight"}
    /\ \A f \in AllFields : StoredIn(TheStore, last_save[1].user_id, f) # NULL

\* C15 as stated: when the save of a confirmed delta hits a storage error,
\* the user is told of the error and is not shown the success message.
C15_SaveErrorSurfaced ==
    save_result \in {"db_error", "connect_error"} =>
        /\ "save_error" \in ephemeral
        /\ "saved" \notin Range(sent)

\* the node that ran right after node, or the position of the run when node
\* was the last to run, is succ
NextAfter(node, succ) ==
    \A i \in DOMAIN executed :
        executed[i] = node =>
            IF i = Len(executed) THEN pc = succ ELSE executed[i + 1] = succ

\* C16: once extract_profile has completed, topic = update means the run is
\* at END with an empty response and generate_raw never runs, topic =
\* update_ask means generate_raw is next; generate_raw runs after
\* extract_profile only when topic = update_ask.
C16_AfterExtractProfile ==
    (Ran("extract_profile") /\ llm["extract_profile"] = "ok") =>
        /\ topic = "update" =>
              /\ NextAfter("extract_profile", "END")
              /\ response = ""
              /\ ~Ran("generate_raw")
        /\ topic = "update_ask" => NextAfter("extract_profile", "generate_raw")
        /\ Ran("generate_raw") => topic = "update_ask"

C16_Witness ==
    /\ pc = "END" /\ topic = "update" /\ Last(executed) = "extract_profile"
    /\ Truthy(pending_extraction) /\ response = ""

\* C17: once extract_topic has completed, topic = ask means generate_raw is
\* next and extract_profile never runs, topic = update or update_ask means
\* extract_profile is next.
C17_AfterExtractTopic ==
    Ran("extract_topic") =>
        /\ topic \in Topics
        /\ topic = "ask" =>
              /\ NextAfter("extract_topic", "generate_raw")
              /\ ~Ran("extract_profile")
        /\ topic \in {"update", "update_ask"} =>
              NextAfter("extract_topic", "extract_profile")

C17_Witness ==
    /\ topic = "ask" /\ llm["extract_topic"] = "noinfo"
    /\ executed = <<"load_user_info", "rate_severity", "extract_topic", "generate_raw">>

\* C18: a run starts at load_user_info, rate_severity runs second, and
\* extract_topic, extract_profile and generate_raw run (and call the model)
\* only after rate_severity has completed with severity_rate < 4.
C18_SeverityFirst ==
    /\ (app = "called" /\ executed = <<>>) => pc = "load_user_info"
    /\ Len(executed) >= 1 => executed[1] = "load_user_info"
    /\ Len(executed) >= 2 => executed[2] = "rate_severity"
    /\ (Len(executed) = 1 /\ app = "called") => pc = "rate_severity"
    /\ \A node \in {"extract_topic", "extract_profile", "generate_raw"} :
          (Ran(node) \/ pc = node \/ llm[node] # "none") =>
              /\ Ran("rate_severity")
              /\ llm["rate_severity"] # "none"
              /\ severity_rate < 4
              /\ \A i \in DOMAIN executed : executed[i] = node => i > 2

C18_Witness ==
    /\ executed = <<"load_user_info", "rate_severity", "extract_topic",
                    "extract_profile", "generate_raw">>
    /\ severity_rate = 3 /\ llm["rate_severity"] = "ok"

\* C19 as stated: every run ends at END, having run no node twice and at
\* most five nodes.
C19_RunReachesEnd ==
    /\ Len(executed) <= 5
    /\ \A i, j \in DOMAIN executed : executed[i] = executed[j] => i = j
    /\ pc \notin {"idle", "load_user_info", "rate_severity",
                   "severity_interrupt", "extract_topic", "extract_profile",
                   "generate_raw"} => pc = "END"

\* C20: a run without a user id has use_info off, makes no access to the
\* store, and keeps user_context absent and is_new_user false, whatever
\* use_info the caller passed.
C20_NoUserNoStorage ==
    (app # "idle" /\ user_id = NoUser) =>
        /\ ~use_info
        /\ ~db_access
        /\ user_info = None
        /\ user_context = None
        /\ ~is_new_user

C20_Witness ==
    /\ pc = "END" /\ app = "done" /\ user_id = NoUser /\ use_info_in
    /\ Ran("load_user_info") /\ response # ""

\* the most recent message whose content is not empty, if there is one
RECURSIVE MostRecent(_, _)
MostRecent(msgs, i) ==
    IF i = 0 THEN None
    ELSE IF msgs[i].content # <<>> THEN Some(msgs[i])
    ELSE MostRecent(msgs, i - 1)

IsSuffix(t, u) ==
    Len(t) <= Len(u) /\ SubSeq(u, Len(u) - Len(t) + 1, Len(u)) = t

\* C26: the text format_messages returns is at most max_chars long.
C26_WithinBudget ==
    formatted # None => Len(formatted[1]) <= max_chars

C26_Witness ==
    /\ formatted # None /\ Len(fm_messages) = 2
    /\ Len(formatted[1]) + 1 = max_chars
    /\ Len(parsed_lines(fm_messages, 2, 0, max_chars)) = 1
    /\ fm_messages[1].content # <<>>

\* C27 as stated: when some message has non-empty content, the returned
\* text ends with the line of the most recent such message.
C27_KeepsMostRecent ==
    (formatted # None /\ MostRecent(fm_messages, Len(fm_messages)) # None) =>
        LET m == MostRecent(fm_messages, Len(fm_messages))[1]
        IN  IsSuffix(strip(formatted_line(m)), formatted[1])

\* C21: load_user_info always completes and hands over to rate_severity;
\* documents stays absent when the retriever is unavailable, the query is
\* blank or the retrieval raises, and is set only when use_rag is on and the
\* retrieval returned; user_context stays absent when the lookup raises or
\* finds no row, whether or not the insert raises.
C21_LoadNeverAborts ==
    svc # None =>
        LET a == svc[1]
            looked_up == use_info /\ user_id # NoUser
        IN  /\ pc = "rate_severity" /\ executed = <<"load_user_info">>
            /\ (\/ a.rag \in {"unavailable", "error"}
                \/ format_lines(messages) = <<>>) => documents = None
            /\ documents # None => use_rag /\ a.rag \in {"empty", "docs"}
            /\ (looked_up /\ a.fetch = "error") =>
                  user_context = None /\ user_info = None
            /\ (looked_up /\ a.fetch = "ok" /\ a.insert = "error") =>
                  (user_context = None <=> ~is_new_user /\ user_info = None)
            /\ user_context # None =>
                  looked_up /\ a.fetch = "ok" /\ user_info # None

C21_Witness ==
    /\ svc # None /\ use_rag /\ use_info /\ user_id # NoUser
    /\ svc[1].rag = "error" /\ svc[1].fetch = "error" /\ svc[1].insert = "error"
    /\ format_lines(messages) # <<>>
    /\ db_users[user_id] # None
    /\ pc = "rate_severity"

\* C22: when the runs that handled the same new user id are over and one of
\* them got its insert through or found the record, the id has its Users
\* record; every run ends the node; and the insert of a run changes no column
\* of a record that exists when it executes.
C22_Rows ==
    /\ \A p \in DOMAIN racers : racers[p].at \in {"lookup", "insert", "done"}
    /\ (/\ racers # <<>>
        /\ \A p \in DOMAIN racers : racers[p].at = "done"
        /\ \E p \in DOMAIN racers :
              racers[p].is_new_user \/ racers[p].user_info # None)
          => db_users[RaceUser] # None
C22_Insert ==
    (\E p \in DOMAIN racers : racers[p].at = "insert" /\ racers'[p].at = "done")
        => /\ db_users[RaceUser] # None => db_users' = db_users
           /\ db_users[RaceUser] = None =>
                 db_users' \in {db_users, [db_users EXCEPT ![RaceUser] = Some(BlankRow)]}
           /\ UNCHANGED <<db_bmi, db_activity>>
RECURSIVE RunAlone(_, _, _, _)
RunAlone(node, s, qa, a) ==
    IF node = "END" THEN [s |-> s, qa |-> qa]
    ELSE LET r == node_result(node, s, qa, a)
         IN  RunAlone(r.next, r.s, r.qa, a)

\* C23: whatever the interleaving, an invocation that has ended holds the
\* state and the invoke_qa log it ends with when it runs alone on the same
\* input with the same answers.
C23_RunsIndependent ==
    \A p \in DOMAIN runs :
        runs[p].pc = "END" =>
            LET s == runs[p].s[1]
                alone == RunAlone(EntryPoint,
                                  graph_input(p, runs[p].topic_in, s.invoke_qa),
                                  {}, runs[p].answers)
            IN  s = alone.s /\ heap[s.invoke_qa] = alone.qa

C23_Witness ==
    /\ runs # <<>>
    /\ \A p \in DOMAIN runs : runs[p].pc = "END"
    /\ runs[1].s[1].response = TextAnswer /\ runs[1].s[1].topic = "update_ask"
    /\ runs[2].s[1].interrupted
    /\ heap[runs[1].s[1].invoke_qa] # heap[runs[2].s[1].invoke_qa]

\* C24 as stated: severity_rate is an integer from 0 to 5 in every state.
C24_SeverityInRange ==
    severity_rate \in 0 .. 5

\* C25 as stated: from the call on, question is the (stripped) content of
\* the last message with role user, or the default string when what was
\* derived is empty.
C25_QuestionDerived ==
    app # "idle" =>
        LET c == LastUserContent(messages, Len(messages))
        IN  question = IF c = None \/ Strip(c[1]) = "" THEN defaultMessage
                       ELSE Strip(c[1])

\* C28 as stated: a returned summary has office_risk Low, Medium or High.
C28_RiskLevel ==
    summary_result # None =>
        summary_result[1].summary.office_risk \in RiskLevels

\* C29 as stated: after a call with a user id, the store holds the returned
\* summary for that user and the day of the call.
C29_ReturnedIsStored ==
    (summary_result # None /\ summary_result[1].user_id # NoUser) =>
        SummaryRow(summary_result[1].user_id, summary_result[1].date,
                   summary_result[1].summary) \in db_summary

\* C30: the store holds at most one Summary row for a user and a date, and
\* it is the summary of the most recent call that saved one for them.
C30_OnePerDay ==
    /\ \A r1, r2 \in db_summary :
          (r1.user_id = r2.user_id /\ r1.date = r2.date) => r1 = r2
    /\ \A k \in DOMAIN summary_saved :
          summary_saved[k] # None =>
              SummaryRow(k[1], k[2], summary_saved[k][1]) \in db_summary
    /\ \A r \in db_summary : summary_saved[<<r.user_id, r.date>>] # None

C30_Witness ==
    /\ Cardinality(db_summary) = 2
    /\ summary_result # None
    /\ summary_result[1].user_id # NoUser
    /\ summary_result[1].date = today
    /\ summary_result[1].summary.office_risk = "High"
    /\ SummaryRow(summary_result[1].user_id, today,
                  [summary_result[1].summary EXCEPT !.office_risk = "Low"])
          \in db_summary

\* C31 as stated: get_bmi_analysis returns Unknown when weight or height is
\* missing or height <= 0, and otherwise the category of the exact BMI =
\* weight / (height / 100)^2: Underweight below 18.5, Normal weight from 18.5
\* to below 25, Overweight from 25 to below 30, Obese from 30.
C31_BmiCategory ==
    (bmi_call # <<>> /\ bmi_call[1].result # None) =>
        LET weight == bmi_call[1].weight
            height == bmi_call[1].height
            w == weight[1]
            h == height[1]
        IN  bmi_call[1].result[1] =
                IF weight = None \/ height = None \/ h <= 0 THEN "Unknown"
                ELSE IF 20000 * w < 37 * h * h THEN "Underweight"
                ELSE IF 10000 * w < 25 * h * h THEN "Normal weight"
                ELSE IF 10000 * w < 30 * h * h THEN "Overweight"
                ELSE "Obese"

\* C32 as stated: a run on an empty message history with use_rag on and
\* topic unset (and a severity below the interrupt threshold) skips retrieval
\* without error, reaches generate_raw, hands the default greeting to the
\* model instead of an empty transcript, and returns without raising.
C32_EmptyHistoryGenerates ==
    (/\ app # "idle" /\ messages = <<>> /\ use_rag /\ topic_in = Unset
     /\ pc \in {"END", "raised"} /\ ~interrupted) =>
        /\ documents = None
        /\ pc = "END"
        /\ Ran("generate_raw")
        /\ formatted_input(messages) = <<[role |-> "none", content |-> "Hello"]>>

\* C33 as stated: after load_user_info has run with use_info set for a
\* user id, if the id had no Users record then it has a blank one,
\* is_new_user is true and user_context is absent; if it had a record then
\* is_new_user is false, user_context is the formatted persona of the record
\* and the record is unchanged.
C33_LoadOutcome ==
    (svc # None /\ use_info /\ user_id # NoUser) =>
        LET before == svc[1].users[user_id]
        IN  IF before = None
            THEN /\ db_users[user_id] = Some(BlankRow)
                 /\ is_new_user
                 /\ user_context = None
            ELSE /\ ~is_new_user
                 /\ user_context = Some(format_user_info(before[1]))
                 /\ db_users[user_id] = before

\* C38 as stated: is_new_user is true only if the user id had no Users
\* record when load_user_info looked it up, whatever the storage answered.
C38_NewOnlyIfAbsent ==
    (svc # None /\ is_new_user) => svc[1].users[user_id] = None

\* C34 as stated: in the final state invoke_qa has exactly one entry for each
\* model-backed stage that executed in the run, and none for the others.
C34_OnePerStage ==
    Terminal => invoke_qa = {s \in Stages : Ran(s)}

\* the stages whose model call has returned an answer
C34_Answered == {s \in Stages : llm[s] \notin {"none", "fail"}}

\* C34 amended: no step removes an entry of invoke_qa, and invoke_qa holds
\* exactly the model-backed stages whose model call has returned an answer:
\* a stage that did not execute, extract_topic when the caller supplied the
\* topic, and rate_severity or extract_topic when their call failed, have no
\* entry.
C34_AppendOnly ==
    [][ /\ invoke_qa \subseteq invoke_qa'
        /\ invoke_qa' = C34_Answered'
        /\ invoke_qa' \subseteq {s \in Stages : Ran(s)'} ]_vars

C34_Witness ==
    /\ Terminal /\ topic_in = "ask"
    /\ llm["rate_severity"] = "fail" /\ Ran("rate_severity")
    /\ Ran("extract_topic")
    /\ invoke_qa = {"generate_raw"}

\* C35: in every final state with interrupted = true no later stage has
\* executed: pending_extraction is absent, response is empty, topic is the
\* value the caller supplied (possibly unset) and invoke_qa has no entry for
\* extract_topic, extract_profile or generate_raw.
C35_InterruptedRunsNothingMore ==
    (Terminal /\ interrupted) =>
        /\ pending_extraction = None
        /\ response = ""
        /\ topic = topic_in
        /\ invoke_qa \cap {"extract_topic", "extract_profile", "generate_raw"} = {}
        /\ \A node \in {"extract_topic", "extract_profile", "generate_raw"} :
              ~Ran(node) /\ llm[node] = "none"

C35_Witness ==
    /\ Terminal /\ interrupted /\ app = "done" /\ handler = "on_message"
    /\ topic = Unset /\ topic_in = Unset
    /\ invoke_qa = {"rate_severity"}
    /\ severity_rate = 5

\* the number of times generate_raw has executed in the run
C36_Generated == Cardinality({i \in DOMAIN executed : executed[i] = "generate_raw"})

C37_AllOrNothing ==
    tx_call # None =>
        LET c == tx_call[1]
            saved(table, fields) ==
                IF Captures(c.delta, fields)
                THEN [table EXCEPT ![c.user_id] = Upsert(@, fields, c.delta)]
                ELSE table
        IN  IF c.outcome = "ok"
            THEN /\ db_users = saved(c.before.users, UserFields)
                 /\ db_bmi = saved(c.before.bmi, BmiFields)
                 /\ db_activity = saved(c.before.activity, ActivityFields)
            ELSE TheStore = c.before

\* the second upsert has run and changed a row when the third one fails
C37_Witness ==
    /\ tx_call # None
    /\ tx_call[1].outcome = "db_error" /\ tx_call[1].n = 2
    /\ DOMAIN tx_call[1].delta = {"name", "weight", "steps"}
    /\ executed_upserts(tx_call[1].before, tx_call[1].user_id,
                        tx_call[1].delta, 2).users # tx_call[1].before.users
    /\ executed_upserts(tx_call[1].before, tx_call[1].user_id,
                        tx_call[1].delta, 2).bmi # tx_call[1].before.bmi
    /\ TheStore = tx_call[1].before

\* C39: while a confirmation view is on display, a step changes the store
\* only when the user the view belongs to presses Confirm, and then by
\* saving the extraction of the view under the user id of the view; a press
\* by anybody else and a press of Cancel leave the store unchanged.
C39_OnlyOwnerConfirmSaves ==
    [][ /\ (view # None /\ store' # store) =>
              /\ press' = Some([user |-> view[1].user_id, button |-> "confirm"])
              /\ TheStore' = save_extracted_profile(TheStore, view[1].user_id,
                                                    view[1].data, "ok")
              /\ pending_extraction = Some(view[1].data)
        /\ (/\ view # None /\ press' # None
            /\ \/ press'[1].user # view[1].user_id
               \/ press'[1].button = "cancel") => store' = store
        /\ (view = None /\ app = "done") => store' = store ]_vars

\* somebody else has pressed Confirm on a view whose extraction would have
\* changed the store
C39_Witness ==
    /\ view # None
    /\ press = Some([user |-> 2, button |-> "confirm"])
    /\ "not_owner" \in ephemeral
    /\ save_extracted_profile(TheStore, view[1].user_id, view[1].data, "ok")
          # TheStore
    /\ save_result = "none"

\* C40: when on_message has handled a message without an exception, the
\* urgent-care directive has been sent if and only if interrupted = true,
\* the caution warning if and only if interrupted = false and
\* severity_rate >= 2, and never both.
C40_NoticeFollowsState ==
    (handler = "on_message" /\ app = "done" /\ pc # "raised") =>
        /\ "urgent" \in Range(sent) <=> interrupted
        /\ "caution" \in Range(sent) <=> (~interrupted /\ severity_rate >= 2)
        /\ ~("urgent" \in Range(sent) /\ "caution" \in Range(sent))
        /\ Cardinality({i \in DOMAIN sent : sent[i] \in {"urgent", "caution"}}) <= 1

C40_Witness ==
    /\ handler = "on_message" /\ app = "done" /\ Terminal
    /\ severity_rate = 2 /\ ~interrupted
    /\ Last(sent) = "caution" /\ "response" \in Range(sent)
====
